---- MODULE Spec2Model ----
(***************************************************************************)
(* Model of src/utils/crypto.ts: decryptStreamPath (the payload decoder),  *)
(* fetchStreamUrl (one transport call, then the decoder) and getMediaUrls  *)
(* (the quality policy).                                                   *)
(*                                                                         *)
(* A JavaScript string is a sequence of UTF-16 code units (naturals), a    *)
(* Buffer is a sequence of bytes 0..255.                                   *)
(***************************************************************************)
EXTENDS Integers, Sequences, FiniteSets, TLC

\* ------------------------------------------------------------------------
\* Program constants
\* ------------------------------------------------------------------------

\* Buffer.from('gy1t#b@jl(b$wtme', 'utf8')
KEY == <<103, 121, 49, 116, 35, 98, 64, 106, 108, 40, 98, 36, 119, 116, 109, 101>>

\* Buffer.from('xC4dmVJAq14BfntX', 'utf8')
IV == <<120, 67, 52, 100, 109, 86, 74, 65, 113, 49, 52, 66, 102, 110, 116, 88>>

\* 'https://vodhlsgaana-ebw.akamaized.net/'
HLS_BASE_URL == <<104, 116, 116, 112, 115, 58, 47, 47, 118, 111, 100, 104, 108, 115,
                  103, 97, 97, 110, 97, 45, 101, 98, 119, 46, 97, 107, 97, 109, 97,
                  105, 122, 101, 100, 46, 110, 101, 116, 47>>

\* the block size of 'aes-128-cbc', in bytes
BlockSize == 16

\* encryptedData.substring(offset + 16)
SkipLen == 16

\* '/hls/', the text rawText.includes looks for
SlashHlsSlash == <<47, 104, 108, 115, 47>>

\* 'hls/', the text rawText.indexOf looks for
HlsSlash == <<104, 108, 115, 47>>

\* ------------------------------------------------------------------------
\* JavaScript values and string operations
\* ------------------------------------------------------------------------

\* the number NaN and the value undefined, as values no code unit equals
NaN == -1
Undefined == -2

Min(a, b) == IF a < b THEN a ELSE b

\* s[i] for a 0-based index: undefined past the end
CharAt(s, i) == IF i < Len(s) THEN s[i + 1] ELSE Undefined

\* a parse that takes what is no digit for 0, as Number('') would
ParseInt10Lenient(c) == IF c \in 48..57 THEN c - 48 ELSE 0

\* parseInt(c, 10) of one code unit (or undefined): a decimal digit gives
\* its value, anything else gives NaN
ParseInt10(c) == IF c \in 48..57 THEN c - 48 ELSE NaN

\* s.substring(start), start >= 0: a start past the end is clamped to it
Substring(s, start) == SubSeq(s, Min(start, Len(s)) + 1, Len(s))

\* whether pat occurs in s at 0-based position i
OccursAt(s, pat, i) ==
    /\ i + Len(pat) <= Len(s)
    /\ \A k \in 1..Len(pat) : s[i + k] = pat[k]

\* s.includes(pat)
Includes(s, pat) == \E i \in 0..Len(s) : OccursAt(s, pat, i)

\* s.indexOf(pat): the first position, or -1
IndexOf(s, pat) ==
    IF Includes(s, pat)
    THEN CHOOSE i \in 0..Len(s) :
            /\ OccursAt(s, pat, i)
            /\ \A j \in 0..(i - 1) : ~OccursAt(s, pat, j)
    ELSE -1

\* s.replace(/\0/g, '')
RECURSIVE RemoveNulFrom(_, _)
RemoveNulFrom(s, i) ==
    IF i > Len(s) THEN <<>>
    ELSE (IF s[i] # 0 THEN <<s[i]>> ELSE <<>>) \o RemoveNulFrom(s, i + 1)

RemoveNul(s) == RemoveNulFrom(s, 1)

\* the code units String.prototype.trim removes: WhiteSpace and
\* LineTerminator of ECMAScript
IsWhiteSpace(c) ==
    \/ c \in 9..13
    \/ c = 32
    \/ c = 160
    \/ c = 5760
    \/ c \in 8192..8202
    \/ c \in {8232, 8233, 8239, 8287, 12288, 65279}

\* a trim that removes nothing
TrimNothing(s) == s

\* s.trim()
Trim(s) ==
    LET idx == {i \in 1..Len(s) : ~IsWhiteSpace(s[i])}
    IN  IF idx = {} THEN <<>>
        ELSE SubSeq(s, CHOOSE i \in idx : \A j \in idx : i <= j,
                       CHOOSE i \in idx : \A j \in idx : j <= i)

\* the filter with its upper limit one too high
IsPrintableOrDel(code) == code >= 32 /\ code <= 127

\* code >= 32 && code <= 126
IsPrintable(code) == code >= 32 /\ code <= 126

\* .split('').filter(...).join('')
RECURSIVE FilterFrom(_, _)
FilterFrom(s, i) ==
    IF i > Len(s) THEN <<>>
    ELSE (IF IsPrintable(s[i]) THEN <<s[i]>> ELSE <<>>) \o FilterFrom(s, i + 1)

FilterPrintable(s) == FilterFrom(s, 1)

\* ------------------------------------------------------------------------
\* Buffer.from(text, 'base64') and buffer.toString('utf8')
\* ------------------------------------------------------------------------

\* the value of a base64 digit (the URL-safe '-' and '_' are accepted too),
\* or -1 for any other code unit
Unbase64(c) ==
    IF c \in 65..90 THEN c - 65
    ELSE IF c \in 97..122 THEN c - 71
    ELSE IF c \in 48..57 THEN c + 4
    ELSE IF c = 43 \/ c = 45 THEN 62
    ELSE IF c = 47 \/ c = 95 THEN 63
    ELSE -1

\* the base64 digits read by the decoder: it stops at the first '=' and
\* skips every code unit that is no base64 digit
RECURSIVE Sextets(_, _)
Sextets(s, i) ==
    IF i > Len(s) \/ s[i] = 61 THEN <<>>
    ELSE (IF Unbase64(s[i]) >= 0 THEN <<Unbase64(s[i])>> ELSE <<>>)
             \o Sextets(s, i + 1)

\* the bytes of a sequence of base64 digits: 4 digits give 3 bytes, a final
\* group of 2 gives 1 byte, of 3 gives 2 bytes, of 1 gives none
BytesOfSextets(x) ==
    LET rem == Len(x) % 4
        n   == (Len(x) \div 4) * 3 + (IF rem = 2 THEN 1 ELSE IF rem = 3 THEN 2 ELSE 0)
    IN  [k \in 1..n |->
            LET g == 4 * ((k - 1) \div 3)
                r == (k - 1) % 3
            IN  IF r = 0 THEN x[g + 1] * 4 + (x[g + 2] \div 16)
                ELSE IF r = 1 THEN (x[g + 2] % 16) * 16 + (x[g + 3] \div 4)
                ELSE (x[g + 3] % 4) * 64 + x[g + 4]]

\* Buffer.from(text, 'base64'): lenient, never throws
BufferFromBase64(text) == BytesOfSextets(Sextets(text, 1))

IsCont(b, i) == i <= Len(b) /\ b[i] \in 128..191

\* buffer.toString('utf8'): well-formed sequences of 1 to 4 bytes give their
\* code point (two surrogates above U+FFFF); a byte that starts no
\* well-formed sequence gives U+FFFD.  (V8 gives one U+FFFD for a whole
\* truncated sequence where this gives one per byte: only the number of
\* U+FFFD differs.)
RECURSIVE Utf8Decode(_, _)
Utf8Decode(b, i) ==
    IF i > Len(b) THEN <<>>
    ELSE IF b[i] < 128 THEN <<b[i]>> \o Utf8Decode(b, i + 1)
    ELSE IF b[i] \in 194..223 /\ IsCont(b, i + 1)
        THEN <<(b[i] - 192) * 64 + (b[i + 1] - 128)>> \o Utf8Decode(b, i + 2)
    ELSE IF /\ b[i] \in 224..239
            /\ IsCont(b, i + 1) /\ IsCont(b, i + 2)
            /\ (b[i] = 224 => b[i + 1] >= 160)
            /\ (b[i] = 237 => b[i + 1] <= 159)
        THEN <<(b[i] - 224) * 4096 + (b[i + 1] - 128) * 64 + (b[i + 2] - 128)>>
                 \o Utf8Decode(b, i + 3)
    ELSE IF /\ b[i] \in 240..244
            /\ IsCont(b, i + 1) /\ IsCont(b, i + 2) /\ IsCont(b, i + 3)
            /\ (b[i] = 240 => b[i + 1] >= 144)
            /\ (b[i] = 244 => b[i + 1] <= 143)
        THEN LET cp == (b[i] - 240) * 262144 + (b[i + 1] - 128) * 4096
                         + (b[i + 2] - 128) * 64 + (b[i + 3] - 128) - 65536
             IN  <<55296 + (cp \div 1024), 56320 + (cp % 1024)>>
                     \o Utf8Decode(b, i + 4)
    ELSE <<65533>> \o Utf8Decode(b, i + 1)

Utf8ToString(b) == Utf8Decode(b, 1)

\* ------------------------------------------------------------------------
\* createDecipheriv('aes-128-cbc', KEY, IV), setAutoPadding(false)
\* ------------------------------------------------------------------------

\* bitwise exclusive or of two bytes
RECURSIVE Xor(_, _)
Xor(a, b) ==
    IF a = 0 THEN b
    ELSE IF b = 0 THEN a
    ELSE 2 * Xor(a \div 2, b \div 2) + ((a + b) % 2)

XorBlock(x, y) == [i \in 1..BlockSize |-> Xor(x[i], y[i])]

\* The AES block permutation under KEY is a library primitive; it stands
\* here as a keyed permutation of 16-byte blocks (a rotation of the byte
\* positions and the addition of the key bytes), with its inverse.  The
\* chaining of the blocks, the initialization vector, the block length
\* check and the absence of unpadding are those of aes-128-cbc.
AesEncryptBlock(p) == [i \in 1..BlockSize |-> (p[(i % BlockSize) + 1] + KEY[i]) % 256]

AesDecryptBlock(c) ==
    [j \in 1..BlockSize |->
        LET i == ((j + BlockSize - 2) % BlockSize) + 1
        IN  (c[i] + 256 - KEY[i]) % 256]

Block(b, n) == SubSeq(b, (n - 1) * BlockSize + 1, n * BlockSize)

\* decipher.update(ciphertext) followed by decipher.final(), for a
\* ciphertext of whole blocks: P[n] = D(C[n]) xor C[n-1], C[0] = IV, and
\* nothing is removed from the end (setAutoPadding(false))
RECURSIVE CbcDecryptFrom(_, _)
CbcDecryptFrom(c, n) ==
    IF n > Len(c) \div BlockSize THEN <<>>
    ELSE XorBlock(AesDecryptBlock(Block(c, n)),
                  IF n = 1 THEN IV ELSE Block(c, n - 1))
             \o CbcDecryptFrom(c, n + 1)

CbcDecrypt(c) == CbcDecryptFrom(c, 1)

\* a final() that accepts any length and drops a last partial block
FinalNeverThrows(ciphertext) == FALSE

\* decipher.final() throws ('wrong final block length') when the data is
\* not a whole number of blocks; no data at all is a whole number of blocks
FinalThrows(ciphertext) == Len(ciphertext) % BlockSize # 0

\* ------------------------------------------------------------------------
\* decryptStreamPath
\* ------------------------------------------------------------------------

\* const offset = parseInt(encryptedData[0], 10)
ParseOffset(encryptedData) == ParseInt10(CharAt(encryptedData, 0))

\* the slice taken one character early
SliceCiphertextEarly(encryptedData, offset) ==
    Substring(encryptedData, offset + SkipLen - 1)

\* const ciphertextB64 = encryptedData.substring(offset + 16)
SliceCiphertext(encryptedData, offset) == Substring(encryptedData, offset + SkipLen)

\* const ciphertext = Buffer.from(ciphertextB64 + '==', 'base64')
DecodeCiphertext(ciphertextB64) == BufferFromBase64(ciphertextB64 \o <<61, 61>>)

\* decrypted.toString('utf8').replace(/\0/g, '').trim(), then the filter
\* to the codes 32..126
Sanitize(text) == FilterPrintable(Trim(RemoveNul(text)))

\* the test made with the text that indexOf looks for
HasHlsPathByMarker(rawText) == Includes(rawText, HlsSlash)

\* whether the HLS path is looked for and found: rawText.includes('/hls/')
HasHlsPath(rawText) == Includes(rawText, SlashHlsSlash)

\* HLS_BASE_URL + rawText.substring(rawText.indexOf('hls/'))
BuildUrl(rawText) == HLS_BASE_URL \o Substring(rawText, IndexOf(rawText, HlsSlash))

\* the values of a call that has not computed them
NoValues ==
    [offset |-> NaN, ciphertextB64 |-> <<>>, ciphertext |-> <<>>,
     decrypted |-> <<>>, text |-> <<>>, rawText |-> <<>>]

\* The body of the try block.  steps lists the operations performed, in
\* order; raised tells whether the body ended by throwing; outcome names
\* the way it ended and returned is the value of its return statement.
TryBody(encryptedData) ==
    LET offset == ParseOffset(encryptedData)
    IN  IF offset = NaN
        THEN [NoValues EXCEPT !.offset = offset] @@
             [steps |-> <<"parseInt">>, raised |-> FALSE,
              outcome |-> "invalidOffset", returned |-> <<>>]
        ELSE
        LET ciphertextB64 == SliceCiphertext(encryptedData, offset)
            ciphertext    == DecodeCiphertext(ciphertextB64)
            known         == [NoValues EXCEPT !.offset = offset,
                                              !.ciphertextB64 = ciphertextB64,
                                              !.ciphertext = ciphertext]
            cipherSteps   == <<"parseInt", "substring", "base64",
                               "createDecipheriv", "update", "final">>
        IN  IF FinalThrows(ciphertext)
            THEN known @@
                 [steps |-> cipherSteps, raised |-> TRUE,
                  outcome |-> "cipherError", returned |-> <<>>]
            ELSE
            LET decrypted == CbcDecrypt(ciphertext)
                text      == Utf8ToString(decrypted)
                rawText   == Sanitize(text)
                all       == [known EXCEPT !.decrypted = decrypted,
                                           !.text = text,
                                           !.rawText = rawText]
                allSteps  == cipherSteps \o <<"sanitize", "includes">>
            IN  IF HasHlsPath(rawText)
                THEN all @@
                     [steps |-> allSteps \o <<"indexOf">>, raised |-> FALSE,
                      outcome |-> "url", returned |-> BuildUrl(rawText)]
                ELSE all @@
                     [steps |-> allSteps, raised |-> FALSE,
                      outcome |-> "noHlsPath", returned |-> <<>>]

\* no catch block: what the body throws leaves the call
Rethrow(body) == body @@ [escaped |-> body.raised]

\* catch (error) { console.warn(...); return '' }
\* escaped tells whether the call ended by throwing to its caller
CatchAll(body) ==
    IF body.raised
    THEN [body EXCEPT !.returned = <<>>] @@ [escaped |-> FALSE]
    ELSE body @@ [escaped |-> FALSE]

\* decryptStreamPath(encryptedData): the record of one call
DecryptStreamPath(encryptedData) == CatchAll(TryBody(encryptedData))

\* ------------------------------------------------------------------------
\* The encrypted field the API supplies: a digit N, N + 15 framing
\* characters, then the base64 text of the ciphertext without its '='
\* ------------------------------------------------------------------------

Base64Char(v) ==
    IF v < 26 THEN 65 + v
    ELSE IF v < 52 THEN 71 + v
    ELSE IF v < 62 THEN v - 4
    ELSE IF v = 62 THEN 43
    ELSE 47

ByteAt(b, i) == IF i <= Len(b) THEN b[i] ELSE 0

\* base64 of the bytes b, with the trailing '=' stripped
Base64Stripped(b) ==
    [k \in 1..((Len(b) * 4 + 2) \div 3) |->
        LET g == 3 * ((k - 1) \div 4)
            r == (k - 1) % 4
        IN  Base64Char(
                IF r = 0 THEN ByteAt(b, g + 1) \div 4
                ELSE IF r = 1 THEN (ByteAt(b, g + 1) % 4) * 16 + (ByteAt(b, g + 2) \div 16)
                ELSE IF r = 2 THEN (ByteAt(b, g + 2) % 16) * 4 + (ByteAt(b, g + 3) \div 64)
                ELSE ByteAt(b, g + 3) % 64)]

\* aes-128-cbc encryption of whole blocks: C[n] = E(P[n] xor C[n-1])
RECURSIVE CbcEncryptFrom(_, _, _)
CbcEncryptFrom(p, n, prev) ==
    IF n > Len(p) \div BlockSize THEN <<>>
    ELSE LET c == AesEncryptBlock(XorBlock(Block(p, n), prev))
         IN  c \o CbcEncryptFrom(p, n + 1, c)

CbcEncrypt(p) == CbcEncryptFrom(p, 1, IV)

\* the plaintext made a whole number of blocks: PKCS#7 padding (k bytes of
\* value k, k in 1..16) or zero bytes up to the next block boundary
Pad(p, scheme) ==
    LET k == BlockSize - (Len(p) % BlockSize)
    IN  IF scheme = "pkcs7" THEN p \o [i \in 1..k |-> k]
        ELSE p \o [i \in 1..(k % BlockSize) |-> 0]

\* the field for offset digit n, framing character fill and ciphertext c
Frame(n, fill, c) == <<48 + n>> \o [i \in 1..(n + SkipLen - 1) |-> fill] \o Base64Stripped(c)

\* A field as a caller may pass it: the framed encryption of plain, then
\* its last cut characters dropped and, when first is a code unit, its
\* first character replaced by it.
FieldOf(x) ==
    LET whole == Frame(x.n, x.fill, CbcEncrypt(Pad(x.plain, x.pad)))
        kept  == SubSeq(whole, 1, Len(whole) - Min(x.cut, Len(whole)))
    IN  IF x.first = Undefined \/ kept = <<>> THEN kept
        ELSE <<x.first>> \o Tail(kept)

\* ------------------------------------------------------------------------
\* The inputs of the model
\* ------------------------------------------------------------------------

\* the longest run of noise before and after a plaintext
MaxNoise == 1

\* the most characters dropped from the end of a field
MaxCut == 3

\* Plaintexts: '/hls/a', 'hls/a', 'abc', 'hls/a/hls/b', 'x/hls/a b',
\* 'x/hls/abcdefghij' (one whole block), 'junk###hls/abc/def.m3u8' and
\* the empty text
Cores ==
    { <<47, 104, 108, 115, 47, 97>>,
      <<104, 108, 115, 47, 97>>,
      <<97, 98, 99>>,
      <<104, 108, 115, 47, 97, 47, 104, 108, 115, 47, 98>>,
      <<120, 47, 104, 108, 115, 47, 97, 32, 98>>,
      <<120, 47, 104, 108, 115, 47, 97, 98, 99, 100, 101, 102, 103, 104, 105, 106>>,
      <<106, 117, 110, 107, 35, 35, 35, 104, 108, 115, 47, 97, 98, 99, 47, 100,
        101, 102, 46, 109, 51, 117, 56>>,
      <<>> }

\* Noise: NUL, a control byte, a space, DEL, U+00A0 in UTF-8 (a space that
\* is not ASCII) and a byte that is no UTF-8
NoiseTokens == { <<0>>, <<1>>, <<32>>, <<127>>, <<194, 160>>, <<255>> }

RECURSIVE NoiseUpTo(_)
NoiseUpTo(n) ==
    IF n = 0 THEN { <<>> }
    ELSE NoiseUpTo(n - 1) \cup
         { s \o tok : s \in NoiseUpTo(n - 1), tok \in NoiseTokens }

Noise == NoiseUpTo(MaxNoise)

Paddings == { "pkcs7", "zero" }

\* the framing character: 'A', or '=' that would end a base64 text
Fills == { 65, 61 }

\* a first character that is no decimal digit: 'x', ' ', '-', '/', ':',
\* ARABIC-INDIC DIGIT ONE and FULLWIDTH DIGIT ONE
NonDigits == { 120, 32, 45, 47, 58, 1633, 65297 }

Case(plain, pad, n, fill, cut, first) ==
    [plain |-> plain, pad |-> pad, n |-> n, fill |-> fill, cut |-> cut,
     first |-> first]

\* every offset digit and framing, on each plaintext
FramedCases ==
    { Case(p, pad, n, fill, 0, Undefined) :
        p \in Cores, pad \in Paddings, n \in 0..9, fill \in Fills }

\* noise around each plaintext
NoisyCases ==
    { Case(pre \o p \o post, pad, 0, 65, 0, Undefined) :
        p \in Cores, pre \in Noise, post \in Noise, pad \in Paddings }

\* fields cut short: by a few characters, to the framing alone, to nothing
CutCases ==
    { Case(p, "pkcs7", n, 65, cut, Undefined) :
        p \in Cores, n \in {0, 9},
        cut \in (1..MaxCut) \cup {22, 23, 100} }

\* fields whose first character is no digit
NonDigitCases ==
    { Case(p, "pkcs7", n, 65, 0, c) :
        p \in Cores, n \in {0, 9}, c \in NonDigits }

Cases == FramedCases \cup NoisyCases \cup CutCases \cup NonDigitCases

\* what data.stream_path may hold: fields that decode to a URL, a field
\* with no '/hls/', one cut short, one with no digit first, the empty text
StreamPaths ==
    { FieldOf(Case(<<47, 104, 108, 115, 47, 97>>, "pkcs7", 3, 65, 0, Undefined)),
      FieldOf(Case(<<120, 47, 104, 108, 115, 47, 97, 32, 98>>, "zero", 0, 65, 0, Undefined)),
      FieldOf(Case(<<97, 98, 99>>, "pkcs7", 3, 65, 0, Undefined)),
      FieldOf(Case(<<47, 104, 108, 115, 47, 97>>, "pkcs7", 3, 65, 1, Undefined)),
      FieldOf(Case(<<47, 104, 108, 115, 47, 97>>, "pkcs7", 3, 65, 0, 120)),
      <<>> }

TrackIds == { "t1", "t2" }

Qualities == { "low", "medium", "high" }

\* a JSON property that is a string, "absent" standing for a property that
\* is not there
ApiStatuses == { "success", "error", "absent" }
BitRates    == { "absent", "", "128" }
Formats     == { "absent", "", "mp4_aac" }

\* The body of a response: text that is no JSON, the JSON null, or an
\* object, with or without data, data with or without stream_path.
Bodies ==
    { [kind |-> k, api_status |-> "absent", hasData |-> FALSE, hasPath |-> FALSE,
       stream_path |-> <<>>, bit_rate |-> "absent", track_format |-> "absent"] :
        k \in { "notJson", "null" } }
    \cup
    { [kind |-> "object", api_status |-> a, hasData |-> FALSE, hasPath |-> FALSE,
       stream_path |-> <<>>, bit_rate |-> "absent", track_format |-> "absent"] :
        a \in ApiStatuses }
    \cup
    { [kind |-> "object", api_status |-> a, hasData |-> TRUE, hasPath |-> FALSE,
       stream_path |-> <<>>, bit_rate |-> b, track_format |-> f] :
        a \in ApiStatuses, b \in BitRates, f \in Formats }
    \cup
    { [kind |-> "object", api_status |-> a, hasData |-> TRUE, hasPath |-> TRUE,
       stream_path |-> s, bit_rate |-> b, track_format |-> f] :
        a \in ApiStatuses, s \in StreamPaths, b \in BitRates, f \in Formats }

\* ------------------------------------------------------------------------
\* State
\* ------------------------------------------------------------------------

VARIABLES
    call,       \* the exported function the caller has called, or "none"
    input,      \* the case a direct call of decryptStreamPath was given
    decCalls,   \* the calls of decryptStreamPath made so far, in order
    fpc,        \* where fetchStreamUrl is: idle, awaitFetch, awaitJson, done
    fTrackId,   \* fetchStreamUrl's trackId
    fQuality,   \* fetchStreamUrl's quality
    requests,   \* the requests handed to fetch() so far, in order
    response,   \* the body of the response fetch() resolved with
    fResult,    \* what fetchStreamUrl resolved with: <<>> is null
    fOutcome,   \* pending, returned or rejected
    gpc,        \* where getMediaUrls is: idle, awaitHigh, done, rejected
    attempts,   \* the qualities getMediaUrls called fetchStreamUrl with
    gResults,   \* the array getMediaUrls resolved with
    trace       \* the events of the run, in order

vars == <<call, input, decCalls, fpc, fTrackId, fQuality, requests, response,
          fResult, fOutcome, gpc, attempts, gResults, trace>>

NoCase == Case(<<>>, "none", 0, 0, 0, Undefined)

NoBody ==
    [kind |-> "none", api_status |-> "absent", hasData |-> FALSE, hasPath |-> FALSE,
     stream_path |-> <<>>, bit_rate |-> "absent", track_format |-> "absent"]

Init ==
    /\ call = "none"
    /\ input = NoCase
    /\ decCalls = <<>>
    /\ fpc = "idle"
    /\ fTrackId = "none"
    /\ fQuality = "none"
    /\ requests = <<>>
    /\ response = NoBody
    /\ fResult = <<>>
    /\ fOutcome = "pending"
    /\ gpc = "idle"
    /\ attempts = <<>>
    /\ gResults = <<>>
    /\ trace = <<>>

\* ------------------------------------------------------------------------
\* fetchStreamUrl
\* ------------------------------------------------------------------------

\* quality: 'low' | 'medium' | 'high' = 'high'
QualityOrDefault(q) == IF q = "omitted" THEN "high" ELSE q

\* x || otherwise, for a string property that may be absent
OrElse(x, otherwise) == IF x = "absent" \/ x = "" THEN otherwise ELSE x

\* the test without the status
IsSuccessAnyStatus(body) ==
    /\ body.hasData
    /\ body.hasPath
    /\ body.stream_path # <<>>

\* data.api_status === 'success' && data.data?.stream_path
IsSuccess(body) ==
    /\ body.api_status = "success"
    /\ body.hasData
    /\ body.hasPath
    /\ body.stream_path # <<>>

\* What follows `await res.json()` inside the try block, once it resolved
\* with the value of body: raised tells whether it threw, calls holds the
\* calls of decryptStreamPath it made and result the value it returned.
AfterJson(body, quality) ==
    IF body.kind = "null"
    THEN [raised |-> TRUE, calls |-> <<>>, result |-> <<>>]
    ELSE IF IsSuccess(body)
    THEN LET d == DecryptStreamPath(body.stream_path) @@
                  [encryptedData |-> body.stream_path]
         IN  IF d.escaped
             THEN [raised |-> TRUE, calls |-> <<d>>, result |-> <<>>]
             ELSE IF d.returned # <<>>
             THEN [raised |-> FALSE, calls |-> <<d>>,
                   result |-> << [quality |-> quality,
                                  bitRate |-> OrElse(body.bit_rate, ""),
                                  url     |-> d.returned,
                                  format  |-> OrElse(body.track_format, "mp4")] >>]
             ELSE [raised |-> FALSE, calls |-> <<d>>, result |-> <<>>]
    ELSE [raised |-> FALSE, calls |-> <<>>, result |-> <<>>]

\* catch (error) { console.warn(...); return null }: how the promise of
\* fetchStreamUrl settles when its try block threw
WhenThrown == [outcome |-> "returned", result |-> <<>>]

\* how the promise of fetchStreamUrl settles
Settle(r) ==
    IF r.raised THEN WhenThrown
    ELSE [outcome |-> "returned", result |-> r.result]

\* the request of fetchStreamUrl: a POST of the form body
\* quality, track_id, stream_format=mp4
Request(t, q) ==
    [url |-> "https://gaana.com/api/stream-url", method |-> "POST",
     quality |-> q, track_id |-> t, stream_format |-> "mp4"]

\* the request sent a second time
RequestsTwice(t, q) == <<Request(t, q), Request(t, q)>>

\* the calls of fetch() that fetchStreamUrl makes: one
RequestsOf(t, q) == <<Request(t, q)>>

\* fetchStreamUrl(trackId, quality) up to `await fetch(...)`: the request
\* is built and handed to fetch()
StartFetch(t, q) ==
    /\ fpc' = "awaitFetch"
    /\ fTrackId' = t
    /\ fQuality' = q
    /\ requests' = requests \o RequestsOf(t, q)
    /\ trace' = trace \o [i \in 1..Len(RequestsOf(t, q)) |-> "fetch"]
    /\ UNCHANGED <<decCalls, response, fResult, fOutcome>>

\* a caller calls fetchStreamUrl
CallFetchStreamUrl ==
    /\ call = "none"
    /\ \E t \in TrackIds, q \in Qualities \cup {"omitted"} :
          StartFetch(t, QualityOrDefault(q))
    /\ call' = "fetchStreamUrl"
    /\ UNCHANGED <<input, gpc, attempts, gResults>>

\* fetch() rejects (a network error): the catch block runs
FetchRejects ==
    /\ fpc = "awaitFetch"
    /\ LET s == Settle([raised |-> TRUE, calls |-> <<>>, result |-> <<>>])
       IN  /\ fResult' = s.result
           /\ fOutcome' = s.outcome
    /\ fpc' = "done"
    /\ trace' = trace \o <<"fetchRejected", "settled">>
    /\ UNCHANGED <<call, input, decCalls, fTrackId, fQuality, requests, response,
                   gpc, attempts, gResults>>

\* fetch() resolves with a response; res.json() is called and awaited
FetchResolves ==
    /\ fpc = "awaitFetch"
    /\ \E b \in Bodies : response' = b
    /\ fpc' = "awaitJson"
    /\ trace' = Append(trace, "fetchResolved")
    /\ UNCHANGED <<call, input, decCalls, fTrackId, fQuality, requests, fResult,
                   fOutcome, gpc, attempts, gResults>>

\* res.json() settles: it rejects when the body is no JSON, else the rest
\* of the try block runs
JsonSettles ==
    /\ fpc = "awaitJson"
    /\ LET r == IF response.kind = "notJson"
                THEN [raised |-> TRUE, calls |-> <<>>, result |-> <<>>]
                ELSE AfterJson(response, fQuality)
           s == Settle(r)
       IN  /\ decCalls' = decCalls \o r.calls
           /\ fResult' = s.result
           /\ fOutcome' = s.outcome
           /\ trace' = trace
                        \o <<IF response.kind = "notJson" THEN "jsonRejected"
                                                          ELSE "jsonResolved">>
                        \o [i \in 1..Len(r.calls) |-> "decrypt"]
                        \o <<"settled">>
    /\ fpc' = "done"
    /\ UNCHANGED <<call, input, fTrackId, fQuality, requests, response, gpc,
                   attempts, gResults>>

\* ------------------------------------------------------------------------
\* getMediaUrls
\* ------------------------------------------------------------------------

\* another tier tried first
FirstQualityMedium == "medium"

\* the quality of the one call: fetchStreamUrl(trackId, 'high')
FirstQuality == "high"

\* a caller calls getMediaUrls: it runs up to `await fetchStreamUrl(...)`
CallGetMediaUrls ==
    /\ call = "none"
    /\ \E t \in TrackIds : StartFetch(t, FirstQuality)
    /\ call' = "getMediaUrls"
    /\ gpc' = "awaitHigh"
    /\ attempts' = <<FirstQuality>>
    /\ UNCHANGED <<input, gResults>>

\* if (highQuality) results.push(highQuality)
Collect(results, highQuality) ==
    IF highQuality # <<>> THEN results \o highQuality ELSE results

\* the promise of fetchStreamUrl settled: getMediaUrls resumes and returns
\* (a rejection would be thrown by the await and reject getMediaUrls)
GetMediaUrlsResumes ==
    /\ gpc = "awaitHigh"
    /\ fpc = "done"
    /\ IF fOutcome = "rejected"
       THEN /\ gpc' = "rejected"
            /\ gResults' = gResults
       ELSE /\ gpc' = "done"
            /\ gResults' = Collect(<<>>, fResult)
    /\ trace' = Append(trace, "getMediaUrlsSettled")
    /\ UNCHANGED <<call, input, decCalls, fpc, fTrackId, fQuality, requests,
                   response, fResult, fOutcome, attempts>>

\* ------------------------------------------------------------------------
\* decryptStreamPath, called by a caller of the module
\* ------------------------------------------------------------------------

CallDecryptStreamPath ==
    /\ call = "none"
    /\ \E x \in Cases :
          /\ input' = x
          /\ decCalls' = << DecryptStreamPath(FieldOf(x)) @@
                            [encryptedData |-> FieldOf(x)] >>
    /\ call' = "decryptStreamPath"
    /\ trace' = Append(trace, "decrypt")
    /\ UNCHANGED <<fpc, fTrackId, fQuality, requests, response, fResult, fOutcome,
                   gpc, attempts, gResults>>

Next ==
    \/ CallDecryptStreamPath
    \/ CallFetchStreamUrl
    \/ CallGetMediaUrls
    \/ FetchRejects
    \/ FetchResolves
    \/ JsonSettles
    \/ GetMediaUrlsResumes

Spec == Init /\ [][Next]_vars

\* ------------------------------------------------------------------------
\* Properties
\* ------------------------------------------------------------------------

\* the calls of decryptStreamPath made so far
Calls == { decCalls[i] : i \in 1..Len(decCalls) }

Did(d, step) == \E i \in 1..Len(d.steps) : d.steps[i] = step

\* the suffix of s that starts at the first occurrence of pat
FromFirst(s, pat) ==
    LET at == { i \in 0..Len(s) : OccursAt(s, pat, i) }
        first == CHOOSE i \in at : \A j \in at : i <= j
    IN  SubSeq(s, first + 1, Len(s))

\* the call made directly by the caller, on a field nothing was cut from
\* or replaced in
WholeField == call = "decryptStreamPath" /\ input.cut = 0 /\ input.first = Undefined

AllPrintable(s) == \A i \in 1..Len(s) : s[i] \in 32..126

\* C1 as stated: whenever the sanitized text contains 'hls/' anywhere, the
\* call returns the base host followed by the sanitized text from its first
\* 'hls/' on, whether or not a '/' precedes the marker.
C1_AsStated ==
    \A d \in Calls :
        (Did(d, "includes") /\ Includes(d.rawText, HlsSlash))
            => d.returned = HLS_BASE_URL \o FromFirst(d.rawText, HlsSlash)

\* C1, amended: when the sanitized text contains '/hls/', the call returns
\* the base host followed by the sanitized text from its first 'hls/' on
\* (which may come before the first '/hls/'); when it does not contain
\* '/hls/', the call returns the empty text, even if 'hls/' occurs in it.
C1_UrlFromFirstMarker ==
    \A d \in Calls :
        Did(d, "includes") =>
            /\ Includes(d.rawText, SlashHlsSlash)
                  => d.returned = HLS_BASE_URL \o FromFirst(d.rawText, HlsSlash)
            /\ ~Includes(d.rawText, SlashHlsSlash) => d.returned = <<>>

\* a sanitized text that starts with 'hls/' and has '/hls/' further on: the
\* URL takes it from the start
C1_Witness ==
    \E d \in Calls :
        /\ d.outcome = "url"
        /\ OccursAt(d.rawText, HlsSlash, 0)
        /\ Len(d.returned) = Len(HLS_BASE_URL) + Len(d.rawText)

\* C2 as stated: for every printable plaintext path that contains 'hls/'
\* and every offset digit, framing and padding of the encoder, the call
\* returns the base host followed by the path from its first 'hls/' on.
C2_AsStated ==
    (WholeField /\ AllPrintable(input.plain) /\ Includes(input.plain, HlsSlash))
        => decCalls[1].returned = HLS_BASE_URL \o FromFirst(input.plain, HlsSlash)

\* C2, amended: the round trip holds for every plaintext path of printable
\* ASCII that contains '/hls/' and does not end with a space, for every
\* offset digit 0..9, every framing and both paddings: the call returns the
\* base host followed by the path from its first 'hls/' on.
C2_RoundTrip ==
    (/\ WholeField
     /\ AllPrintable(input.plain)
     /\ Includes(input.plain, SlashHlsSlash)
     /\ input.plain[Len(input.plain)] # 32)
        => decCalls[1].returned = HLS_BASE_URL \o FromFirst(input.plain, HlsSlash)

\* a path of one whole block, offset digit 9, '=' as framing
C2_Witness ==
    /\ WholeField
    /\ input.n = 9
    /\ input.fill = 61
    /\ Len(input.plain) = BlockSize
    /\ Includes(input.plain, SlashHlsSlash)
    /\ decCalls[1].outcome = "url"

\* C3: a call on the empty text, or on a text whose first character is no
\* decimal digit, ends as an invalid offset with no URL and with nothing
\* done after the parse; and an accepted offset is one of 0..9.
C3_MalformedOffset ==
    \A d \in Calls :
        /\ (d.encryptedData = <<>> \/ d.encryptedData[1] \notin 48..57)
              => /\ d.outcome = "invalidOffset"
                 /\ d.returned = <<>>
                 /\ d.steps = <<"parseInt">>
        /\ d.outcome # "invalidOffset"
              => /\ d.offset \in 0..9
                 /\ d.encryptedData # <<>>
                 /\ d.encryptedData[1] = 48 + d.offset

\* the call on the empty text
C3_Witness ==
    \E d \in Calls : d.encryptedData = <<>> /\ d.outcome = "invalidOffset"

\* the cipher was set up or run
UsedCipher(d) == Did(d, "createDecipheriv") \/ Did(d, "update") \/ Did(d, "final")

\* the decoded byte count is no positive multiple of the block size
BadLength(d) ==
    Did(d, "base64") /\ (Len(d.ciphertext) = 0 \/ Len(d.ciphertext) % BlockSize # 0)

\* C4 as stated: when the payload decodes to a byte count that is no
\* positive multiple of 16, the call ends with no URL and without invoking
\* the cipher.
C4_AsStated ==
    \A d \in Calls : BadLength(d) => (d.returned = <<>> /\ ~UsedCipher(d))

\* C4, amended: when the payload decodes to a byte count that is no
\* positive multiple of 16, the call returns no URL, but there is no length
\* check before the cipher: the cipher is created and run.  For a count
\* that is no multiple of 16, final() throws and the catch block returns
\* the empty text; for 0 bytes (offset + 16 at or past the end of the
\* input) the cipher yields no bytes and the call ends because the text has
\* no '/hls/'.
C4_NoUrlForBadLength ==
    \A d \in Calls :
        BadLength(d) =>
            /\ d.returned = <<>>
            /\ Did(d, "final")
            /\ Len(d.ciphertext) % BlockSize # 0
                  => d.outcome = "cipherError" /\ d.raised /\ ~d.escaped
            /\ Len(d.ciphertext) = 0
                  => d.outcome = "noHlsPath" /\ ~d.raised /\ d.rawText = <<>>

\* a payload of 15 bytes
C4_Witness ==
    \E d \in Calls : Len(d.ciphertext) = 15 /\ d.outcome = "cipherError"

IsMark(c) == c \in 33..126

\* u is a subsequence of s: the characters of u occur in s, in order
RECURSIVE IsSubsequence(_, _)
IsSubsequence(u, s) ==
    IF u = <<>> THEN TRUE
    ELSE IF s = <<>> THEN FALSE
    ELSE IF Head(u) = Head(s) THEN IsSubsequence(Tail(u), Tail(s))
    ELSE IsSubsequence(u, Tail(s))

\* C5: the sanitized text holds only codes 32..126 (so no NUL, no control
\* character and nothing from U+007F up), it is a subsequence of the
\* decrypted text, and it keeps every letter, digit and punctuation
\* character (codes 33..126) of the decrypted text, in order.
C5_Sanitized ==
    \A d \in Calls :
        Did(d, "sanitize") =>
            /\ \A i \in 1..Len(d.rawText) : d.rawText[i] \in 32..126
            /\ IsSubsequence(d.rawText, d.text)
            /\ SelectSeq(d.rawText, IsMark) = SelectSeq(d.text, IsMark)

\* a decrypted text with a control character, DEL or a character that is
\* not ASCII in front of a path that is kept
C5_Witness ==
    \E d \in Calls :
        /\ Did(d, "sanitize")
        /\ Len(d.text) > 0
        /\ d.text[1] \in {1, 127, 160, 65533}
        /\ Includes(d.rawText, HlsSlash)

\* C10 as stated: the sanitized text never starts or ends with whitespace.
C10_AsStated ==
    \A d \in Calls :
        (Did(d, "sanitize") /\ d.rawText # <<>>)
            => /\ ~IsWhiteSpace(d.rawText[1])
               /\ ~IsWhiteSpace(d.rawText[Len(d.rawText)])

\* the positions of the decrypted text that hold neither NUL nor whitespace
Solid(s) == { i \in 1..Len(s) : s[i] # 0 /\ ~IsWhiteSpace(s[i]) }

\* C10, amended: the trim comes before the filter, so the sanitized text
\* starts (ends) without whitespace when the first (last) character of the
\* decrypted text that is neither NUL nor whitespace is printable ASCII: it
\* then starts (ends) with that character.  When that character is one the
\* filter drops, a space next to it stays at that end.  A decrypted text of
\* NUL and whitespace alone gives the empty text.
C10_TrimBeforeFilter ==
    \A d \in Calls :
        Did(d, "sanitize") =>
            LET solid == Solid(d.text)
                lo == CHOOSE i \in solid : \A j \in solid : i <= j
                hi == CHOOSE i \in solid : \A j \in solid : j <= i
            IN  IF solid = {} THEN d.rawText = <<>>
                ELSE /\ d.text[lo] \in 32..126
                        => d.rawText # <<>> /\ d.rawText[1] = d.text[lo]
                     /\ d.text[hi] \in 32..126
                        => d.rawText # <<>> /\ d.rawText[Len(d.rawText)] = d.text[hi]

\* a decrypted text with a space before the path and whitespace after it,
\* sanitized to the path alone
C10_Witness ==
    \E d \in Calls :
        /\ Did(d, "sanitize")
        /\ Len(d.text) > 0
        /\ d.text[1] = 32
        /\ IsWhiteSpace(d.text[Len(d.text)])
        /\ d.rawText # <<>>
        /\ d.rawText[1] = 47
        /\ ~IsWhiteSpace(d.rawText[Len(d.rawText)])

\* the envelope that counts as a success
SuccessEnvelope ==
    /\ response.kind = "object"
    /\ response.api_status = "success"
    /\ response.hasData
    /\ response.hasPath
    /\ response.stream_path # <<>>

\* C6: fetchStreamUrl resolves with a MediaUrl exactly when the transport
\* gave a success envelope with a stream_path that is not empty and
\* decryptStreamPath, called on that stream_path, returned a URL; the
\* record has the requested quality and that URL.  Otherwise it resolves
\* with null, and without a success envelope the decoder is not called.
C6_FetchStreamUrl ==
    fpc = "done" =>
        /\ Len(fResult) <= 1
        /\ SuccessEnvelope
              => /\ Len(decCalls) = 1
                 /\ decCalls[1].encryptedData = response.stream_path
                 /\ (fResult # <<>>) <=> (decCalls[1].returned # <<>>)
        /\ ~SuccessEnvelope => (decCalls = <<>> /\ fResult = <<>>)
        /\ fResult # <<>>
              => /\ fResult[1].quality = fQuality
                 /\ fResult[1].quality = requests[1].quality
                 /\ fResult[1].url = decCalls[1].returned
                 /\ fResult[1].url # <<>>

\* a MediaUrl for the quality 'low'
C6_Witness ==
    /\ fpc = "done"
    /\ fQuality = "low"
    /\ fResult # <<>>
    /\ fResult[1].format = "mp4"

C8_NothingThrown ==
    /\ \A d \in Calls :
          /\ ~d.escaped
          /\ d.raised => d.returned = <<>>
          /\ d.outcome \in {"invalidOffset", "cipherError", "noHlsPath", "url"}
          /\ (d.outcome = "url") <=> (d.returned # <<>>)
    /\ fOutcome # "rejected"
    /\ fpc = "done" => fOutcome = "returned"
    /\ gpc # "rejected"

\* the cipher threw inside a run of getMediaUrls, which returned
C8_Witness ==
    /\ gpc = "done"
    /\ \E d \in Calls : d.raised

\* the positions of an event in the trace
Positions(e) == { i \in 1..Len(trace) : trace[i] = e }

\* C9: a call of fetchStreamUrl hands one request to the transport and
\* none after a failure; the decoder is called at most once, and only once
\* fetch() and res.json() have resolved.
C9_OneTransportCall ==
    call \in {"fetchStreamUrl", "getMediaUrls"} =>
        /\ Len(requests) = 1
        /\ Cardinality(Positions("fetch")) = 1
        /\ Len(decCalls) <= 1
        /\ Cardinality(Positions("decrypt")) = Len(decCalls)
        /\ \A i \in Positions("decrypt") :
              /\ \E j \in Positions("fetchResolved") : j < i
              /\ \E j \in Positions("jsonResolved") : j < i
              /\ \A j \in Positions("fetch") : j < i
        /\ fpc = "done" => trace[1] = "fetch" /\ Cardinality(Positions("settled")) = 1

\* the transport failed and the call settled after its one request
C9_Witness ==
    /\ fpc = "done"
    /\ Positions("fetchRejected") # {}
    /\ Len(requests) = 1

====
